---- MODULE Spec2Model ----
(***************************************************************************)
(* LRAG: retrieval (src/tools.py), relation extraction                     *)
(* (src/ingestion/relation_extractor.py, scripts/extract_relations.py),    *)
(* document ingestion (src/ingestion/ingest.py,                            *)
(* src/api/routes/documents.py, src/ingestion/embedder.py) and the graph   *)
(* queries (src/graph_tools.py) as state machines.                         *)
(*                                                                         *)
(* Four sub-systems share the module.  Each has its own variables and its  *)
(* own specifications; a specification leaves the other sub-systems'       *)
(* variables untouched.                                                    *)
(*   SpecSearch    one search call at a time, every mode, every failure    *)
(*   SpecFusion    the hybrid fetch applied to drawn rankings              *)
(*   SpecClassify  one extract_relation call, every answer of the LLM      *)
(*   SpecRel       relation-extraction runs against the relations table    *)
(*   SpecIngest    concurrent ingestion tasks against the documents table  *)
(*   SpecEmbed     one embed_chunks call, every answer of the endpoint     *)
(*   SpecGraph     one graph query at a time against a filled store        *)
(*   SpecBatch     one extract_relations_batch call, with fairness         *)
(*   SpecPipeline  one ingest_documents call over a folder                 *)
(*   SpecJob       background upload jobs, with fairness                   *)
(***************************************************************************)
EXTENDS Integers, Sequences, FiniteSets, TLC

VARIABLES
    chunks,     \* chunks table: chunk id -> owning project
    search,     \* the search call in progress (locals of tools.py functions)
    relations,  \* relations table: a set of rows
    run,        \* the extract_and_save_relations run in progress
    runs,       \* relation-extraction runs started, and whether one crashed
    call,       \* a single extract_relation call: the answer and what it returned
    documents,  \* documents table: a set of rows
    chunkRows,  \* chunks written by ingestion: a set of rows
    tasks,      \* ingestion tasks: task id -> locals of the task
    nextId,     \* next document id the store hands out
    ingests,    \* ingestion tasks started so far
    embed,      \* the embed_chunks call in progress (locals of embedder.py)
    entities,   \* entities table: a set of rows
    graph,      \* the graph query in progress (locals of graph_tools.py functions)
    clock,      \* the store's NOW()
    pipeline,   \* the ingest_documents call in progress
    job         \* background upload jobs: job id -> row of ingestion_jobs and locals

vars == <<chunks, search, relations, run, runs, call, documents, chunkRows, tasks, nextId,
          ingests, embed, entities, graph, clock, pipeline, job>>

searchVars == <<chunks, search>>
relVars == <<relations, run, runs, call>>
taskVars == <<documents, chunkRows, tasks, nextId, ingests, embed, clock>>
ingestVars == <<taskVars, pipeline, job>>
graphVars == <<entities, graph>>

None == "None"

Min(a, b) == IF a <= b THEN a ELSE b

Range(s) == {s[i] : i \in 1..Len(s)}

\* Sequences without repetition over S, of length at most n.
RECURSIVE InjSeqs(_, _)
InjSeqs(S, n) ==
    IF n = 0 THEN {<<>>}
    ELSE LET shorter == InjSeqs(S, n - 1)
         IN shorter \cup {Append(p[1], p[2]) :
                             p \in {q \in shorter \X S : q[2] \notin Range(q[1])}}

Take(s, n) == SubSeq(s, 1, Min(n, Len(s)))

(***************************************************************************)
(* SEARCH                                                                  *)
(***************************************************************************)

\* ---- bounds of the search model
MaxK == 2        \* largest result count a direct caller asks for
MaxHits == 2     \* longest ranking the store holds for a query (SpecSearch)
MaxRank == 3     \* longest ranking the store holds for a query (SpecFusion)

\* ---- Settings (src/settings.py)
default_match_count == 10
max_match_count == 50

\* ---- the agent tool's default result count (src/agent.py)
agent_match_count == 5

\* ---- the store's RRF constant
RRF_K == 60

Projects == {"P1", "P2"}

\* The corpus of SpecSearch: two chunks of P1 and one of P2.
SmallCorpus == [c \in {"A", "B", "X"} |-> IF c = "X" THEN "P2" ELSE "P1"]

\* The corpus of SpecFusion: five chunks of P1.
FusionCorpus == [c \in {"A", "B", "C", "D", "E"} |-> "P1"]

\* SpecFusion names the chunks in the order of their similarity to the query:
\* a semantic ranking lists some of them in that order.
SimilarityOrder == <<"A", "B", "C", "D", "E">>

\* An optional int is <<>> (None) or <<n>>.
CountArgs == {<<>>} \cup {<<n>> : n \in 1..MaxK} \cup {<<max_match_count + 1>>}

ProjectArgs == {None} \cup Projects

\* match_count defaulting and clamping.
ResolveMatchCount_NoClamp(match_count) ==
    IF match_count = <<>> THEN default_match_count ELSE match_count[1]

ResolveMatchCount(match_count) ==
    LET mc == IF match_count = <<>> THEN default_match_count ELSE match_count[1]
    IN Min(mc, max_match_count)

\* "Use project_id from context if not provided".
ResolveProject_IgnoreContext(project_id, ctxProject) == project_id

ResolveProject(project_id, ctxProject) ==
    IF project_id = None THEN ctxProject ELSE project_id

\* The store's project filter: equality, or no filter for NULL.
Visible(store, project_id) ==
    {c \in DOMAIN store : project_id = None \/ store[c] = project_id}

Row(store, c) == [chunk_id |-> c, project_id |-> store[c]]

Rows(store, ids) == [i \in 1..Len(ids) |-> Row(store, ids[i])]

\* SQL semantic_search / text_search: the query's ranking over the visible
\* chunks, first match_count rows.
DbRanked(store, ranking, match_count, project_id) ==
    Take(SelectSeq(ranking, LAMBDA c : c \in Visible(store, project_id)), match_count)

\* 1-based rank of c in list, 0 when absent.
RankIn(list, c) ==
    IF c \in Range(list) THEN CHOOSE i \in 1..Len(list) : list[i] = c ELSE 0

\* RRF score of c as an exact fraction <<numerator, denominator>>:
\* the sum over the lists that contain c of 1 / (rank + k).
RrfScore(sem, lex, c) ==
    LET rs == RankIn(sem, c)
        rl == RankIn(lex, c)
    IN IF rs > 0 /\ rl > 0 THEN <<(rs + RRF_K) + (rl + RRF_K), (rs + RRF_K) * (rl + RRF_K)>>
       ELSE IF rs > 0 THEN <<1, rs + RRF_K>>
       ELSE IF rl > 0 THEN <<1, rl + RRF_K>>
       ELSE <<0, 1>>

FracLess(a, b) == a[1] * b[2] < b[1] * a[2]

\* Every way of listing the n best of S by descending score; chunks of equal
\* score come in any order (the store states no tie-break).
RECURSIVE DescendingPrefixes(_, _, _, _)
DescendingPrefixes(S, n, sem, lex) ==
    IF n = 0 \/ S = {} THEN {<<>>}
    ELSE LET best == {c \in S : \A d \in S : ~FracLess(RrfScore(sem, lex, c), RrfScore(sem, lex, d))}
         IN UNION {{<<c>> \o rest : rest \in DescendingPrefixes(S \ {c}, n - 1, sem, lex)} : c \in best}

\* SQL hybrid_search: both rankings restricted to the project, fused by RRF,
\* first match_count rows.
DbHybrid(store, sem, lex, match_count, project_id) ==
    LET s == SelectSeq(sem, LAMBDA c : c \in Visible(store, project_id))
        l == SelectSeq(lex, LAMBDA c : c \in Visible(store, project_id))
    IN DescendingPrefixes(Range(s) \cup Range(l), match_count, s, l)

\* The list comprehension building SearchResult objects keeps the row order.
ToSearchResults_Reversed(store, ids) ==
    [i \in 1..Len(ids) |-> Row(store, ids[Len(ids) + 1 - i])]

ToSearchResults(store, ids) == Rows(store, ids)

SearchIdle ==
    [pc |-> "idle", mode |-> None, fn |-> None, sem |-> <<>>, lex |-> <<>>,
     argCount |-> <<>>, argProject |-> None, ctxProject |-> None,
     match_count |-> 0, project_id |-> None,
     faults |-> <<>>, fallback |-> FALSE, result |-> <<>>, raised |-> FALSE]

\* The rankings a query can have over the corpus.
Rankings(store, n) == InjSeqs(DOMAIN store, n)

\* The rankings that follow a given order.
RankingsAlong(order, n) ==
    {s \in InjSeqs(Range(order), n) :
        \A i, j \in 1..Len(s) : i < j => RankIn(order, s[i]) < RankIn(order, s[j])}

\* Entry of semantic_search / text_search / hybrid_search: defaults resolved,
\* next await is the embedding call (text_search goes straight to the store).
Enter(mode, sem, lex, argCount, argProject, ctxProject) ==
    [SearchIdle EXCEPT
        !.pc = IF mode = "text" THEN "fetch" ELSE "embed",
        !.mode = mode, !.fn = mode, !.sem = sem, !.lex = lex,
        !.argCount = argCount, !.argProject = argProject, !.ctxProject = ctxProject,
        !.match_count = ResolveMatchCount(argCount),
        !.project_id = ResolveProject(argProject, ctxProject)]

\* A direct call of one of the three search functions.
SearchCall ==
    /\ search.pc = "idle"
    /\ \E mode \in {"semantic", "text", "hybrid"}, argCount \in CountArgs,
          argProject \in ProjectArgs, ctxProject \in ProjectArgs :
         \E sem \in Rankings(chunks, MaxHits), lex \in Rankings(chunks, MaxHits) :
            search' = Enter(mode, sem, lex, argCount, argProject, ctxProject)
    /\ UNCHANGED <<chunks, relVars, ingestVars, graphVars>>

\* search_knowledge_base: the agent tool passes the context's project.
AgentSearch ==
    /\ search.pc = "idle"
    /\ \E mode \in {"semantic", "text", "hybrid"}, ctxProject \in ProjectArgs :
         \E sem \in Rankings(chunks, MaxHits), lex \in Rankings(chunks, MaxHits) :
            search' = Enter(mode, sem, lex, <<agent_match_count>>, ctxProject, ctxProject)
    /\ UNCHANGED <<chunks, relVars, ingestVars, graphVars>>

\* What a function does when one of its awaits raises: hybrid_search enters
\* its except block (the fallback); the others return [].
OnFailure_Propagates(what) ==
    IF search.fn = "hybrid"
    THEN [search EXCEPT !.pc = "except", !.faults = Append(@, what)]
    ELSE [search EXCEPT !.pc = "done", !.faults = Append(@, what), !.raised = TRUE]

OnFailure(what) ==
    IF search.fn = "hybrid"
    THEN [search EXCEPT !.pc = "except", !.faults = Append(@, what)]
    ELSE [search EXCEPT !.pc = "done", !.faults = Append(@, what), !.result = <<>>]

\* await deps.get_embedding(query)
GetEmbedding ==
    /\ search.pc = "embed"
    /\ \E ok \in BOOLEAN :
         search' = IF ok THEN [search EXCEPT !.pc = "fetch"] ELSE OnFailure("embedding")
    /\ UNCHANGED <<chunks, relVars, ingestVars, graphVars>>

\* conn.fetch("SELECT * FROM semantic_search(...)")
SemanticFetch ==
    /\ search.pc = "fetch" /\ search.fn = "semantic"
    /\ \E ok \in BOOLEAN :
         search' = IF ok
                   THEN [search EXCEPT !.pc = "done",
                            !.result = ToSearchResults(chunks,
                                DbRanked(chunks, search.sem, search.match_count, search.project_id))]
                   ELSE OnFailure("database")
    /\ UNCHANGED <<chunks, relVars, ingestVars, graphVars>>

\* conn.fetch("SELECT * FROM text_search(...)")
TextFetch ==
    /\ search.pc = "fetch" /\ search.fn = "text"
    /\ \E ok \in BOOLEAN :
         search' = IF ok
                   THEN [search EXCEPT !.pc = "done",
                            !.result = ToSearchResults(chunks,
                                DbRanked(chunks, search.lex, search.match_count, search.project_id))]
                   ELSE OnFailure("database")
    /\ UNCHANGED <<chunks, relVars, ingestVars, graphVars>>

\* conn.fetch("SELECT * FROM hybrid_search(...)")
HybridFetch ==
    /\ search.pc = "fetch" /\ search.fn = "hybrid"
    /\ \/ \E ids \in DbHybrid(chunks, search.sem, search.lex, search.match_count, search.project_id) :
            search' = [search EXCEPT !.pc = "done", !.result = ToSearchResults(chunks, ids)]
       \/ search' = OnFailure("database")
    /\ UNCHANGED <<chunks, relVars, ingestVars, graphVars>>

\* hybrid_search's except block: return await semantic_search(ctx, query,
\* match_count, project_id), with the already resolved locals.
Fallback ==
    /\ search.pc = "except"
    /\ search' = [search EXCEPT !.pc = "embed", !.fn = "semantic", !.fallback = TRUE,
                     !.match_count = ResolveMatchCount(<<search.match_count>>),
                     !.project_id = ResolveProject(search.project_id, search.ctxProject)]
    /\ UNCHANGED <<chunks, relVars, ingestVars, graphVars>>

\* The caller takes the list; the next call can start.
Return ==
    /\ search.pc = "done"
    /\ search' = SearchIdle
    /\ UNCHANGED <<chunks, relVars, ingestVars, graphVars>>

SearchNext ==
    \/ SearchCall \/ AgentSearch \/ GetEmbedding \/ SemanticFetch \/ TextFetch
    \/ HybridFetch \/ Fallback \/ Return

(***************************************************************************)
(* RELATION EXTRACTION                                                     *)
(***************************************************************************)

\* ---- bound of the relation model
MaxRuns == 2     \* extraction runs started in one behaviour

\* Confidences are in tenths: 6 is 0.6.
FallbackConfidence == 6     \* keyword fallback
DefaultConfidence == 5      \* JSON object without "confidence"
default_threshold == 5      \* confidence_threshold of extract_and_save_relations
default_max_pairs == 100    \* max_pairs of extract_and_save_relations

\* RelationExtractor.RELATION_TYPES, in the order of the dict.
RELATION_TYPES == <<"AMENDS", "REFERENCES", "PARTIES_TO", "PAYS_FOR", "DELIVERS", "NONE">>

RealTypes == Range(RELATION_TYPES) \ {"NONE"}

\* The documents table as the run reads it (ORDER BY title), and the two
\* entity extractions the runs are checked against: every document has
\* entities, or d3 has none.
RelDocs == <<"d1", "d2", "d3">>

EntityTables ==
    {[d \in Range(RelDocs) |-> <<"ORG">>],
     [d \in Range(RelDocs) |-> IF d = "d3" THEN <<>> ELSE <<"ORG">>]}

\* What the LLM endpoint can answer.  status: the HTTP call succeeded or
\* raised.  json: the content holds no {...}, one that json.loads rejects, or
\* an object.  type: the object's relation_type, upper-cased ("OTHER": not a
\* known type).  conf: the object's confidence, as [given, value].
\* keywords: the relation-type names found in the lower-cased content.
Confidence(n) == [given |-> "number", value |-> n]
NoConfidence == [given |-> "missing", value |-> 0]

LlmConfidences == {Confidence(3), NoConfidence}

FallbackTexts == {{}, {"DELIVERS"}, {"NONE"}, {"DELIVERS", "NONE"}}

Responses ==
    {[status |-> "error", json |-> "absent", type |-> "OTHER", conf |-> NoConfidence, keywords |-> {}]}
    \cup {[status |-> "ok", json |-> "object", type |-> t, conf |-> c, keywords |-> {t}] :
            t \in {"AMENDS", "NONE"}, c \in LlmConfidences}
    \cup {[status |-> "ok", json |-> j, type |-> "OTHER", conf |-> NoConfidence, keywords |-> k] :
            j \in {"absent", "invalid", "object"}, k \in FallbackTexts}

\* An optional relation is <<>> (None) or <<relation>>.
Relation(type, confidence, reasoning) ==
    <<[relation_type |-> type, confidence |-> confidence, reasoning |-> reasoning]>>

\* The first relation type, in dict order, whose name the content holds.
RECURSIVE FirstKeyword(_, _)
FirstKeyword(keywords, i) ==
    IF i > Len(RELATION_TYPES) THEN <<>>
    ELSE IF RELATION_TYPES[i] \in keywords THEN <<RELATION_TYPES[i]>>
    ELSE FirstKeyword(keywords, i + 1)

\* RelationExtractor._parse_relation
ParseRelation(resp) ==
    IF resp.json = "invalid" THEN <<>>                \* json.loads raises: except, None
    ELSE IF resp.json = "object" /\ resp.type \in Range(RELATION_TYPES)
    THEN IF resp.conf.given = "invalid" THEN <<>>     \* float() raises: except, None
         ELSE Relation(resp.type,
                       IF resp.conf.given = "missing" THEN DefaultConfidence ELSE resp.conf.value,
                       "llm")
    ELSE LET kw == FirstKeyword(resp.keywords, 1)
         IN IF kw = <<>> THEN <<>> ELSE Relation(kw[1], FallbackConfidence, "keyword")

\* RelationExtractor.extract_relation: any exception of the call gives None.
ExtractRelation(resp) ==
    IF resp.status = "error" THEN <<>> ELSE ParseRelation(resp)

\* Nested loops that start the inner one at the outer document itself.
PairsOf_WithSelf(docs) ==
    LET n == Len(docs)
        RECURSIVE From(_, _)
        From(i, j) ==
            IF i > n THEN <<>>
            ELSE IF j > n THEN From(i + 1, i + 1)
            ELSE <<<<docs[i], docs[j]>>>> \o From(i, j + 1)
    IN From(1, 1)

\* The pairs of extract_relations_batch's nested loops, in loop order.
PairsOf(docs) ==
    LET n == Len(docs)
        RECURSIVE From(_, _)
        From(i, j) ==
            IF i > n THEN <<>>
            ELSE IF j > n THEN From(i + 1, i + 2)
            ELSE <<<<docs[i], docs[j]>>>> \o From(i, j + 1)
    IN From(1, 2)

\* The loop without its "Skip if no entities" test.
NextEvaluable_NoSkip(pairs, ents, p) == IF p > Len(pairs) THEN 0 ELSE p

\* Index of the next pair at or after p whose documents both have entities
\* ("Skip if no entities"), or 0.
RECURSIVE NextEvaluable(_, _, _)
NextEvaluable(pairs, ents, p) ==
    IF p > Len(pairs) THEN 0
    ELSE IF ents[pairs[p][1]] = <<>> \/ ents[pairs[p][2]] = <<>>
    THEN NextEvaluable(pairs, ents, p + 1)
    ELSE p

\* "if relation and relation['relation_type'] != 'NONE'"
BatchKeeps(rel) == rel # <<>> /\ rel[1].relation_type # "NONE"

\* "Filter by confidence"
HighConfidence_NoThreshold(found, threshold) ==
    SelectSeq(found, LAMBDA r : r.relation_type # "NONE")

HighConfidence(found, threshold) ==
    SelectSeq(found, LAMBDA r : r.confidence >= threshold /\ r.relation_type # "NONE")

KeyOf(r) == <<r.source_document_id, r.target_document_id, r.relation_type>>

\* INSERT INTO relations ... without the ON CONFLICT clause.
Upsert_PlainInsert(table, row) == table \cup {row}

\* INSERT INTO relations ... ON CONFLICT (source_document_id,
\* target_document_id, relation_type) DO UPDATE SET confidence, metadata.
Upsert(table, row) ==
    {r \in table : KeyOf(r) # KeyOf(row)} \cup {row}

RunIdle ==
    [pc |-> "idle", max_pairs |-> 0, threshold |-> 0, ents |-> <<>>, pairs |-> <<>>,
     p |-> 0, pairs_analyzed |-> 0, in_flight |-> 0,
     found |-> <<>>, high |-> <<>>, saved_count |-> 0, replaced |-> 0,
     called |-> <<>>, last |-> None]

\* extract_and_save_relations up to the first LLM call: documents and their
\* entities are loaded.
StartRun ==
    /\ run.pc = "idle"
    /\ runs.started < MaxRuns
    /\ \E max_pairs \in {1, default_max_pairs}, threshold \in {3, default_threshold},
          ents \in EntityTables :
         run' = [RunIdle EXCEPT !.pc = "batch", !.max_pairs = max_pairs,
                    !.threshold = threshold, !.ents = ents,
                    !.pairs = PairsOf(RelDocs), !.p = 1]
    /\ runs' = [runs EXCEPT !.started = @ + 1]
    /\ UNCHANGED <<relations, call, searchVars, ingestVars, graphVars>>

BatchGoesOn ==
    /\ run.pairs_analyzed < run.max_pairs
    /\ NextEvaluable(run.pairs, run.ents, run.p) # 0

\* Every pair's call started at once (asyncio.gather) instead of awaited
\* in turn.
CallLLM_Gathered ==
    /\ run.pc \in {"batch", "await"}
    /\ LET from == IF run.pc = "await" THEN run.p + 1 ELSE run.p
           next == NextEvaluable(run.pairs, run.ents, from)
       IN /\ next # 0
          /\ run' = [run EXCEPT !.pc = "await", !.p = next, !.in_flight = @ + 1,
                        !.called = Append(@, run.pairs[next])]
    /\ UNCHANGED <<relations, runs, call, searchVars, ingestVars, graphVars>>

\* The loop reaches "await self.extract_relation(...)" for the next pair.
\* called lists the pairs a call was issued for (not a local of the code).
CallLLM ==
    /\ run.pc = "batch"
    /\ BatchGoesOn
    /\ LET next == NextEvaluable(run.pairs, run.ents, run.p)
       IN run' = [run EXCEPT !.pc = "await", !.p = next, !.in_flight = @ + 1,
                     !.called = Append(@, run.pairs[next])]
    /\ UNCHANGED <<relations, runs, call, searchVars, ingestVars, graphVars>>

\* The answers for which extract_relation leaves through its except clause:
\* the HTTP call raises, json.loads raises, float() raises.
ClassificationFails(resp) ==
    \/ resp.status = "error"
    \/ resp.json = "invalid"
    \/ resp.json = "object" /\ resp.type \in Range(RELATION_TYPES) /\ resp.conf.given = "invalid"

\* A batch that gives up at the first pair whose classification fails.
PairDone_AbortOnFailure(r, resp) ==
    IF ClassificationFails(resp)
    THEN [r EXCEPT !.pc = "batch", !.p = Len(r.pairs) + 1, !.in_flight = @ - 1,
                   !.last = "failed"]
    ELSE [r EXCEPT !.pc = "batch", !.p = @ + 1, !.in_flight = @ - 1,
                   !.pairs_analyzed = @ + 1, !.last = "answered"]

\* The rest of the loop body for the pair at p, once extract_relation has
\* returned for the answer resp.  last records how the call ended (not a
\* local of the code).
PairDone(r, resp) ==
    LET rel == ExtractRelation(resp)
        pair == r.pairs[r.p]
        kept == IF BatchKeeps(rel)
                THEN <<[relation_type |-> rel[1].relation_type,
                        confidence |-> rel[1].confidence,
                        reasoning |-> rel[1].reasoning,
                        source_doc_id |-> pair[1], target_doc_id |-> pair[2]]>>
                ELSE <<>>
    IN [r EXCEPT !.pc = "batch", !.p = @ + 1, !.in_flight = @ - 1,
                 !.pairs_analyzed = @ + 1, !.found = @ \o kept,
                 !.last = IF ClassificationFails(resp) THEN "failed" ELSE "answered"]

\* The call returns or raises; the relation, if any, is kept.
LLMResponse ==
    /\ run.pc = "await"
    /\ \E resp \in Responses : run' = PairDone(run, resp)
    /\ UNCHANGED <<relations, runs, call, searchVars, ingestVars, graphVars>>

\* The batch returns; the relations are filtered by confidence.  high holds
\* the relations the save loop has still to visit; the locals that are only
\* printed after the loop are dropped.
EndBatch ==
    /\ run.pc = "batch"
    /\ ~BatchGoesOn
    /\ run' = [RunIdle EXCEPT !.pc = "save", !.threshold = run.threshold,
                  !.high = HighConfidence(run.found, run.threshold)]
    /\ UNCHANGED <<relations, runs, call, searchVars, ingestVars, graphVars>>

\* The row conn.execute writes for a relation.  guarded is not a column: it
\* records whether the row met both persistence guards of the run that
\* wrote it.
RowOf(rel, threshold) ==
    [source_document_id |-> rel.source_doc_id, target_document_id |-> rel.target_doc_id,
     relation_type |-> rel.relation_type, confidence |-> rel.confidence,
     metadata |-> rel.reasoning,
     guarded |-> rel.relation_type \in RealTypes /\ rel.confidence >= threshold]

\* One "await conn.execute(INSERT ... ON CONFLICT ...)"; a failure is logged.
SaveRelation ==
    /\ run.pc = "save"
    /\ run.high # <<>>
    /\ LET row == RowOf(Head(run.high), run.threshold)
           existed == \E r \in relations : KeyOf(r) = KeyOf(row)
       IN \/ /\ relations' = Upsert(relations, row)
             /\ run' = [run EXCEPT !.high = Tail(@), !.saved_count = @ + 1,
                           !.replaced = IF existed THEN @ + 1 ELSE @]
          \/ /\ run' = [run EXCEPT !.high = Tail(@)]
             /\ UNCHANGED relations
    /\ UNCHANGED <<runs, call, searchVars, ingestVars, graphVars>>

\* Summary printed, connection closed.
FinishRun ==
    /\ run.pc = "save"
    /\ run.high = <<>>
    /\ run' = RunIdle
    /\ UNCHANGED runs
    /\ UNCHANGED <<relations, call, searchVars, ingestVars, graphVars>>

\* The process dies; what was written stays (no transaction spans the run).
CrashRun ==
    /\ run.pc # "idle"
    /\ run' = RunIdle
    /\ runs' = [runs EXCEPT !.crashed = TRUE]
    /\ UNCHANGED <<relations, call, searchVars, ingestVars, graphVars>>

\* ---- one extract_relation call, for every answer of the endpoint

\* Every answer: any type, any confidence (also out of range, or not a
\* number), any keywords in the text.
AllConfidences ==
    LlmConfidences \cup {Confidence(0), Confidence(9), Confidence(10), Confidence(15),
                         [given |-> "invalid", value |-> 0]}

AllResponses ==
    [status : {"ok", "error"}, json : {"absent", "invalid", "object"},
     type : Range(RELATION_TYPES) \cup {"OTHER"}, conf : AllConfidences,
     keywords : {{}, {"NONE"}, {"AMENDS"}, {"DELIVERS", "NONE"}, {"PAYS_FOR", "REFERENCES"}}]

CallIdle == [pc |-> "idle", resp |-> <<>>, result |-> <<>>]

\* "response = await client.post(...)"
PostToLLM ==
    /\ call.pc = "idle"
    /\ call' = [CallIdle EXCEPT !.pc = "await"]
    /\ UNCHANGED <<relations, run, runs, searchVars, ingestVars, graphVars>>

\* The endpoint answers (or the call raises) and extract_relation returns.
ExtractRelationReturns ==
    /\ call.pc = "await"
    /\ \E resp \in AllResponses :
         call' = [pc |-> "returned", resp |-> <<resp>>, result |-> ExtractRelation(resp)]
    /\ UNCHANGED <<relations, run, runs, searchVars, ingestVars, graphVars>>

NextCall ==
    /\ call.pc = "returned"
    /\ call' = CallIdle
    /\ UNCHANGED <<relations, run, runs, searchVars, ingestVars, graphVars>>

ClassifyNext == PostToLLM \/ ExtractRelationReturns \/ NextCall

RelNext == StartRun \/ CallLLM \/ LLMResponse \/ EndBatch \/ SaveRelation \/ FinishRun \/ CrashRun

(***************************************************************************)
(* INGESTION                                                               *)
(***************************************************************************)

\* ---- bound of the ingestion model
MaxIngests == 2  \* ingestion tasks started in one behaviour

\* Tasks that can be between two awaits at the same time.  A task id is a
\* slot: a new task takes the first free one.
TaskIds == {"t1", "t2"}

FirstFree(t) == t = "t1" \/ tasks["t1"].pc # "idle"

\* The files: one in the documents folder, one of the same name and content
\* in a sub-folder.  A path is the sequence of its components.
Files ==
    {[dir |-> "", name |-> "a.pdf", hash |-> "h1", chunks |-> 2],
     [dir |-> "sub", name |-> "a.pdf", hash |-> "h1", chunks |-> 2]}

NoFile == [dir |-> "", name |-> "", hash |-> None, chunks |-> 0]

\* os.path.basename(file_path)
Basename(f) == <<f.name>>

\* os.path.relpath(file_path, self.documents_folder)
Relpath(f) == IF f.dir = "" THEN <<f.name>> ELSE <<f.dir, f.name>>

TaskIdle ==
    [pc |-> "idle", route |-> None, file |-> NoFile, project_id |-> None,
     file_hash |-> None, existing |-> 0, document_id |-> 0, chunks_created |-> 0,
     result |-> None,
     entities |-> 0,        \* chunks of the document whose entities are written
     entity_error |-> 0,    \* the chunk whose entity extraction raised (0: none)
     failed_at |-> None,    \* the await that raised, if one did
     \* not locals: what the store held when the task started, and whether the
     \* task has run with no other task in progress
     matched |-> {}, ndocs |-> 0, nchunks |-> 0, solo |-> FALSE]

Active(t) == tasks[t].pc # "idle"

\* The stored documents a file stands for: same relative path, content hash
\* and project.
StoredAs(f, project_id) ==
    {d \in documents : d.source = Relpath(f) /\ d.file_hash = f.hash /\ d.project_id = project_id}

\* A task starts: the tasks in progress are no longer alone.
Begin(t, route, f, project_id, incremental) ==
    /\ ~Active(t) /\ FirstFree(t)
    /\ ingests < MaxIngests
    /\ ingests' = ingests + 1
    /\ tasks' = [u \in TaskIds |->
                    IF u = t
                    THEN [TaskIdle EXCEPT
                            !.pc = IF route = "pipeline"
                                   THEN (IF incremental THEN "check" ELSE "chunk")
                                   ELSE "route_check",
                            !.route = route, !.file = f, !.project_id = project_id,
                            !.file_hash = IF incremental THEN f.hash ELSE None,
                            !.matched = StoredAs(f, project_id),
                            !.ndocs = Cardinality(documents),
                            !.nchunks = Cardinality(chunkRows),
                            !.solo = \A v \in TaskIds \ {t} : ~Active(v)]
                    ELSE [tasks[u] EXCEPT !.solo = FALSE]]
    /\ UNCHANGED <<documents, chunkRows, nextId, clock, embed, pipeline, job, searchVars, relVars, graphVars>>

\* ingest_documents reaches _ingest_single_document for a file found by the
\* recursive glob (IngestionConfig.incremental keeps its default, True).
StartPipelineIngest(t) ==
    \E f \in Files, project_id \in {None, "P1"} :
        Begin(t, "pipeline", f, project_id, TRUE)

\* upload_files takes the next file of the request.
StartUpload(t) ==
    \E f \in {g \in Files : g.dir = ""} : Begin(t, "upload", f, "P1", TRUE)

\* process_file_background is scheduled by upload_files_async.
StartBackground(t) ==
    \E f \in {g \in Files : g.dir = ""} : Begin(t, "background", f, "P1", TRUE)

Step(t, task) ==
    /\ tasks' = [tasks EXCEPT ![t] = task]
    /\ UNCHANGED <<ingests, embed, pipeline, job, searchVars, relVars, graphVars>>

\* The routes' own check: WHERE source = $1 AND file_hash = $2 AND
\* project_id = $3, with the uploaded file's name.
RouteCheck(t) ==
    LET task == tasks[t]
        rows == {d \in documents : /\ d.source = <<task.file.name>>
                                   /\ d.file_hash = task.file.hash
                                   /\ task.project_id # None /\ d.project_id = task.project_id}
    IN /\ task.pc = "route_check"
       /\ IF rows = {}
          THEN Step(t, [task EXCEPT !.pc = "check"])
          ELSE \E d \in rows :
                 Step(t, IF task.route = "upload"
                         THEN [task EXCEPT !.pc = "route_update", !.existing = d.id]
                         ELSE [task EXCEPT !.pc = "done", !.result = "duplicate"])
       /\ UNCHANGED <<documents, chunkRows, nextId, clock>>

\* UPDATE documents SET last_ingested = NOW(), ingestion_count =
\* ingestion_count + 1 WHERE id = $1
Touch(id) ==
    {IF d.id = id
     THEN [d EXCEPT !.ingestion_count = @ + 1, !.last_ingested = clock + 1]
     ELSE d : d \in documents}

\* upload_files: "already exists, skipping".
RouteUpdate(t) ==
    LET task == tasks[t]
    IN /\ task.pc = "route_update"
       /\ documents' = Touch(task.existing)
       /\ clock' = clock + 1
       /\ Step(t, [task EXCEPT !.pc = "done", !.result = "skipped"])
       /\ UNCHANGED <<chunkRows, nextId>>

\* _ingest_single_document: WHERE source = $1 AND file_hash = $2 AND
\* (project_id = $3 OR ($3 IS NULL AND project_id IS NULL)) LIMIT 1, with
\* file_name = os.path.basename(file_path).
ExistingRows(f, project_id) ==
    {d \in documents : /\ d.source = Basename(f)
                       /\ d.file_hash # None /\ d.file_hash = f.hash
                       /\ d.project_id = project_id}

PipelineCheck(t) ==
    LET task == tasks[t]
        rows == ExistingRows(task.file, task.project_id)
    IN /\ task.pc = "check"
       /\ IF rows = {}
          THEN Step(t, [task EXCEPT !.pc = "chunk"])
          ELSE \E d \in rows : Step(t, [task EXCEPT !.pc = "update", !.existing = d.id])
       /\ UNCHANGED <<documents, chunkRows, nextId, clock>>

\* _ingest_single_document: "Skipping duplicate document".
PipelineUpdate(t) ==
    LET task == tasks[t]
    IN /\ task.pc = "update"
       /\ documents' = Touch(task.existing)
       /\ clock' = clock + 1
       /\ Step(t, [task EXCEPT !.pc = "done", !.result = "skipped"])
       /\ UNCHANGED <<chunkRows, nextId>>

\* await self.chunker.chunk_document(...): chunks, or none ("No chunks
\* created" is returned as an error of the result).
ChunkDocument(t) ==
    LET task == tasks[t]
    IN /\ task.pc = "chunk"
       /\ \E some \in BOOLEAN :
            Step(t, IF some THEN [task EXCEPT !.pc = "embed"]
                    ELSE [task EXCEPT !.pc = "done", !.result = "no_chunks"])
       /\ UNCHANGED <<documents, chunkRows, nextId, clock>>

\* await self.embedder.embed_chunks(chunks): the batches are embedded (a
\* failing batch is IngestRaises at this await).
EmbedChunks(t) ==
    LET task == tasks[t]
    IN /\ task.pc = "embed"
       /\ Step(t, [task EXCEPT !.pc = "insert_doc"])
       /\ UNCHANGED <<documents, chunkRows, nextId, clock>>

\* _save_to_postgresql: INSERT INTO documents (...) VALUES (...) RETURNING id,
\* with source = document_source (the relative path).
InsertDocument(t) ==
    LET task == tasks[t]
    IN /\ task.pc = "insert_doc"
       /\ documents' = documents \cup
                         {[id |-> nextId, source |-> Relpath(task.file),
                           file_hash |-> task.file_hash, project_id |-> task.project_id,
                           ingestion_count |-> 1, last_ingested |-> clock + 1]}
       /\ nextId' = nextId + 1
       /\ clock' = clock + 1
       /\ Step(t, [task EXCEPT !.pc = "insert_chunks", !.document_id = nextId])
       /\ UNCHANGED chunkRows

\* _save_to_postgresql: one INSERT INTO chunks per chunk.
InsertChunk(t) ==
    LET task == tasks[t]
    IN /\ task.pc = "insert_chunks"
       /\ chunkRows' = chunkRows \cup
                         {[document_id |-> task.document_id, chunk_index |-> task.chunks_created]}
       /\ Step(t, [task EXCEPT !.chunks_created = @ + 1,
                       !.pc = IF task.chunks_created + 1 = task.file.chunks
                              THEN "entities" ELSE "insert_chunks"])
       /\ UNCHANGED <<documents, nextId, clock>>

\* The chunks whose entities _save_entities has inserted when the chunk
\* failing raises (0: none does).  The loop over the chunks stands inside
\* one try: the except logs the error and the function returns.
EntitiesSaved(n, failing) == IF failing = 0 THEN n ELSE failing - 1

\* _save_entities: failures are logged, never raised.
SaveEntities(t) ==
    LET task == tasks[t]
    IN /\ task.pc = "entities"
       /\ \E failing \in 0..task.file.chunks :
            Step(t, [task EXCEPT !.pc = "done", !.result = "processed",
                        !.entities = EntitiesSaved(task.file.chunks, failing),
                        !.entity_error = failing])
       /\ UNCHANGED <<documents, chunkRows, nextId, clock>>

RaisingAwaits ==
    {"route_check", "route_update", "check", "update", "chunk", "embed",
     "insert_doc", "insert_chunks"}

\* Any await of the task raises: the caller's except records the failure.
IngestRaises_EmbedSwallowed(t) ==
    LET task == tasks[t]
    IN /\ task.pc \in RaisingAwaits
       /\ Step(t, IF task.pc = "embed"
                  THEN [task EXCEPT !.pc = "insert_doc", !.failed_at = task.pc]
                  ELSE [task EXCEPT !.pc = "done", !.result = "error", !.failed_at = task.pc])
       /\ UNCHANGED <<documents, chunkRows, nextId, clock>>

IngestRaises(t) ==
    LET task == tasks[t]
    IN /\ task.pc \in RaisingAwaits
       /\ Step(t, [task EXCEPT !.pc = "done", !.result = "error", !.failed_at = task.pc])
       /\ UNCHANGED <<documents, chunkRows, nextId, clock>>

\* The result is handed back; the task id is free for the next file.
TaskReturns(t) ==
    /\ tasks[t].pc = "done"
    /\ Step(t, TaskIdle)
    /\ UNCHANGED <<documents, chunkRows, nextId, clock>>

IngestNext ==
    \E t \in TaskIds :
        \/ StartPipelineIngest(t) \/ StartUpload(t) \/ StartBackground(t)
        \/ RouteCheck(t) \/ RouteUpdate(t) \/ PipelineCheck(t) \/ PipelineUpdate(t)
        \/ ChunkDocument(t) \/ EmbedChunks(t) \/ InsertDocument(t) \/ InsertChunk(t)
        \/ SaveEntities(t) \/ IngestRaises(t) \/ TaskReturns(t)

(***************************************************************************)
(* INGESTING A FOLDER                                                      *)
(***************************************************************************)

\* ---- bound of the folder model
MaxFiles == 3   \* files _find_document_files returns

PipelineIdle ==
    [pc |-> "idle", n |-> 0, i |-> 0, callback |-> FALSE, results |-> <<>>]

\* ingest_documents up to its loop: the files are found (none: "return []");
\* the caller passes a progress_callback or not.
IngestDocuments ==
    /\ pipeline.pc = "idle"
    /\ \E n \in 0..MaxFiles, callback \in BOOLEAN :
         pipeline' = [PipelineIdle EXCEPT !.pc = IF n = 0 THEN "done" ELSE "loop",
                                          !.n = n, !.i = 1, !.callback = callback]
    /\ UNCHANGED <<job, taskVars, searchVars, relVars, graphVars>>

\* One turn of the loop for file i.  Inside one try: the result of
\* _ingest_single_document is appended, then progress_callback is called;
\* the except appends a result carrying the error.
\* ingested: _ingest_single_document returned (it did not raise);
\* callback_ok: progress_callback, if there is one, returned.
LoopBody(results, i, ingested, callback_ok) ==
    IF ~ingested THEN Append(results, [file |-> i, error |-> TRUE])
    ELSE IF ~callback_ok
    THEN results \o <<[file |-> i, error |-> FALSE], [file |-> i, error |-> TRUE]>>
    ELSE Append(results, [file |-> i, error |-> FALSE])

IngestFile ==
    /\ pipeline.pc = "loop"
    /\ pipeline.i <= pipeline.n
    /\ \E ingested \in BOOLEAN, callback_ok \in {TRUE, ~pipeline.callback} :
         pipeline' = [pipeline EXCEPT
                        !.results = LoopBody(@, pipeline.i, ingested, callback_ok),
                        !.i = @ + 1]
    /\ UNCHANGED <<job, taskVars, searchVars, relVars, graphVars>>

\* The loop is over: the summary is logged and the results are returned.
IngestDocumentsReturn ==
    /\ pipeline.pc = "loop"
    /\ pipeline.i > pipeline.n
    /\ pipeline' = [pipeline EXCEPT !.pc = "done"]
    /\ UNCHANGED <<job, taskVars, searchVars, relVars, graphVars>>

(***************************************************************************)
(* BACKGROUND UPLOAD JOBS                                                  *)
(***************************************************************************)
JobIds == {"j1", "j2"}

\* status: the row's status ("none": no row yet).  pool, pipeline_pool: the
\* pool of process_file_background and the pool of its pipeline ("none",
\* "open", "closed").  file: the uploaded temp file exists.  result: what
\* _ingest_single_document returned.  failed_at: the step that raised.
\* escaped: an exception left the task.
JobIdle ==
    [pc |-> "none", status |-> "none", pool |-> "none", pipeline_pool |-> "none",
     file |-> FALSE, result |-> None, failed_at |-> None, escaped |-> FALSE]

JobStep(j, next) ==
    /\ job' = [job EXCEPT ![j] = next]
    /\ UNCHANGED <<pipeline, taskVars, searchVars, relVars, graphVars>>

\* upload_files_async: the file is written, the row is inserted with status
\* 'pending' and asyncio.create_task schedules process_file_background.
CreateJob(j) ==
    /\ job[j].pc = "none"
    /\ JobStep(j, [JobIdle EXCEPT !.pc = "create_pool", !.status = "pending", !.file = TRUE])

\* pool = await asyncpg.create_pool(...)
CreatePool(j) ==
    /\ job[j].pc = "create_pool"
    /\ JobStep(j, [job[j] EXCEPT !.pc = "mark_processing", !.pool = "open"])

\* UPDATE ingestion_jobs SET status = 'processing', ...
MarkProcessing(j) ==
    /\ job[j].pc = "mark_processing"
    /\ JobStep(j, [job[j] EXCEPT !.pc = "check", !.status = "processing"])

\* The user's settings are loaded and the file is looked up.  A duplicate:
\* the job is marked failed, the file is removed and the function returns.
CheckDuplicate(j) ==
    /\ job[j].pc = "check"
    /\ \E existing \in BOOLEAN :
         JobStep(j, IF existing
                    THEN [job[j] EXCEPT !.pc = "remove", !.status = "failed"]
                    ELSE [job[j] EXCEPT !.pc = "init_pipeline"])

\* await pipeline.initialize(): the pipeline creates its own pool.
InitPipeline(j) ==
    /\ job[j].pc = "init_pipeline"
    /\ JobStep(j, [job[j] EXCEPT !.pc = "ingest", !.pipeline_pool = "open"])

\* doc_result = await pipeline._ingest_single_document(file_path)
IngestJob(j) ==
    /\ job[j].pc = "ingest"
    /\ \E result \in {"processed", "errors"} :
         JobStep(j, [job[j] EXCEPT !.pc = "close_pipeline", !.result = result])

\* await pipeline.close()
ClosePipeline(j) ==
    /\ job[j].pc = "close_pipeline"
    /\ JobStep(j, [job[j] EXCEPT !.pc = "mark_result", !.pipeline_pool = "closed"])

\* "if doc_result.errors": status 'failed', else status 'completed'.
MarkResult(j) ==
    /\ job[j].pc = "mark_result"
    /\ JobStep(j, [job[j] EXCEPT !.pc = "remove",
                      !.status = IF job[j].result = "errors" THEN "failed" ELSE "completed"])

\* os.remove(file_path), the last statement of the try (and the one before
\* the return of the duplicate branch).
RemoveFile(j) ==
    /\ job[j].pc = "remove"
    /\ JobStep(j, [job[j] EXCEPT !.pc = "finally", !.file = FALSE])

\* A statement of the try raises: control goes to "except Exception".
JobRaises(j) ==
    /\ job[j].pc \in {"create_pool", "mark_processing", "check", "init_pipeline", "ingest",
                      "close_pipeline", "mark_result", "remove"}
    /\ JobStep(j, [job[j] EXCEPT !.pc = "except", !.failed_at = job[j].pc])

\* The except block: "if pool:" the job is marked failed (this UPDATE can
\* raise as well, and then the exception leaves the task); the file is
\* removed inside try/except: pass.
JobExcept(j) ==
    /\ job[j].pc = "except"
    /\ \E updated \in BOOLEAN, removed \in BOOLEAN :
         JobStep(j, IF job[j].pool = "none"
                    THEN [job[j] EXCEPT !.pc = "finally", !.file = @ /\ ~removed]
                    ELSE IF updated
                    THEN [job[j] EXCEPT !.pc = "finally", !.status = "failed",
                                        !.file = @ /\ ~removed]
                    ELSE [job[j] EXCEPT !.pc = "finally", !.escaped = TRUE])

\* finally: "if pool: await pool.close()".
JobFinally(j) ==
    /\ job[j].pc = "finally"
    /\ JobStep(j, [job[j] EXCEPT !.pc = "exited",
                      !.pool = IF @ = "open" THEN "closed" ELSE @])

JobNext ==
    \E j \in JobIds :
        \/ CreateJob(j) \/ CreatePool(j) \/ MarkProcessing(j) \/ CheckDuplicate(j)
        \/ InitPipeline(j) \/ IngestJob(j) \/ ClosePipeline(j) \/ MarkResult(j)
        \/ RemoveFile(j) \/ JobRaises(j) \/ JobExcept(j) \/ JobFinally(j)

(***************************************************************************)
(* EMBEDDING                                                               *)
(***************************************************************************)

\* ---- bound of the embedding model
MaxChunks == 3   \* chunks handed to one embed_chunks call

\* batch_size of the EmbeddingGenerator (a constructor argument).
BatchSizes == {1, 2}

\* A chunk is [index, long]: long says its content exceeds max_tokens * 4
\* characters.  Chunk lists are numbered 1..n as the chunker numbers them.
ChunkLists ==
    UNION {[1..n -> BOOLEAN] : n \in 0..MaxChunks}

ChunkOf(flags, i) == [index |-> i, long |-> flags[i]]

\* generate_embeddings_batch: the texts sent, overlong ones cut; one text per
\* input text, in input order.
ProcessedTexts(batch) ==
    [j \in 1..Len(batch) |-> [of |-> batch[j].index, cut |-> batch[j].long]]

\* What the endpoint can answer to a batch of texts: a non-2xx status, a body
\* without "data", or "data" holding any number of vectors (fewer than the
\* texts, as many, or one more).  A vector is named after the text it embeds;
\* 0 is a vector that belongs to no text.
EmbeddingAnswers(texts) ==
    {[status |-> "http_error", data |-> <<>>], [status |-> "no_data", data |-> <<>>]}
    \cup {[status |-> "ok", data |-> Take([j \in 1..(Len(texts) + 1) |->
                                               IF j <= Len(texts) THEN texts[j].of ELSE 0], m)] :
            m \in 0..(Len(texts) + 1)}

\* _call_openrouter_embeddings raises on a non-2xx status, a body without
\* "data" and an empty list; otherwise it returns the vectors as they came.
CallRaises(answer) == answer.status # "ok" \/ answer.data = <<>>

\* zip(batch_chunks, embeddings): pairs up to the shorter of the two.
Zip(batch, embeddings) ==
    [j \in 1..Min(Len(batch), Len(embeddings)) |->
        [index |-> batch[j].index, embedding |-> embeddings[j]]]

EmbedIdle ==
    [pc |-> "idle", chunks |-> <<>>, batch_size |-> 0, i |-> 0,
     embedded_chunks |-> <<>>, out |-> <<>>, raised |-> FALSE, calls |-> 0]

\* embed_chunks(chunks): an empty list is returned at once.
EmbedChunksCall ==
    /\ embed.pc = "idle"
    /\ \E flags \in ChunkLists, batch_size \in BatchSizes :
         LET cs == [j \in 1..Len(flags) |-> ChunkOf(flags, j)]
         IN embed' = IF cs = <<>>
                     THEN [EmbedIdle EXCEPT !.pc = "done", !.batch_size = batch_size]
                     ELSE [EmbedIdle EXCEPT !.pc = "await", !.chunks = cs,
                              !.batch_size = batch_size, !.i = 0]
    /\ UNCHANGED <<documents, chunkRows, tasks, nextId, ingests, clock, pipeline, job, searchVars, relVars, graphVars>>

\* The batch chunks[i : i + batch_size].
BatchChunks == SubSeq(embed.chunks, embed.i + 1, Min(embed.i + embed.batch_size, Len(embed.chunks)))

\* One turn of the loop: the endpoint answers the batch; the vectors are
\* zipped onto the chunks; after the last batch the list is returned.
EmbedBatch ==
    /\ embed.pc = "await"
    /\ \E answer \in EmbeddingAnswers(ProcessedTexts(BatchChunks)) :
         embed' =
            IF CallRaises(answer)
            THEN [embed EXCEPT !.pc = "done", !.raised = TRUE, !.calls = @ + 1]
            ELSE LET all == embed.embedded_chunks \o Zip(BatchChunks, answer.data)
                     next == embed.i + embed.batch_size
                 IN IF next < Len(embed.chunks)
                    THEN [embed EXCEPT !.i = next, !.embedded_chunks = all, !.calls = @ + 1]
                    ELSE [embed EXCEPT !.pc = "done", !.i = next, !.embedded_chunks = all,
                             !.out = all, !.calls = @ + 1]
    /\ UNCHANGED <<documents, chunkRows, tasks, nextId, ingests, clock, pipeline, job, searchVars, relVars, graphVars>>

\* The caller takes the list (or the exception).
EmbedReturn ==
    /\ embed.pc = "done"
    /\ embed' = EmbedIdle
    /\ UNCHANGED <<documents, chunkRows, tasks, nextId, ingests, clock, pipeline, job, searchVars, relVars, graphVars>>

EmbedNext == EmbedChunksCall \/ EmbedBatch \/ EmbedReturn

(***************************************************************************)
(* GRAPH QUERIES                                                           *)
(***************************************************************************)

\* ---- limits written in the queries of graph_tools.py
graph_match_count == 10     \* default match_count
snippet_limit == 500        \* SUBSTRING(d.content, 1, 500)
related_limit == 20         \* LIMIT 20 of find_related_documents
relation_limit == 50        \* LIMIT 50 of find_by_relation
entity_docs_limit == 20     \* LIMIT 20 of search_relations_by_entity

\* A string is a sequence of characters.
Lower(ch) == IF ch = "A" THEN "a" ELSE IF ch = "B" THEN "b" ELSE ch

\* name ILIKE '%' || q || '%': case-insensitive, and "_" in q stands for any
\* one character (the query string is not escaped).
ILike(q, name) ==
    \E off \in 0..(Len(name) - Len(q)) :
        \A i \in 1..Len(q) : q[i] = "_" \/ Lower(q[i]) = Lower(name[off + i])

\* The documents of the graph store: id -> length of the content.
GraphDocs == [d \in {"d1", "d2", "d3"} |-> IF d = "d1" THEN 700 ELSE IF d = "d2" THEN 300 ELSE 0]

Entity(d, type, name) == [document_id |-> d, entity_type |-> type, entity_name |-> name]

\* The entity tables the queries are checked against: none; one entity per
\* document; a document with two entities that hold the same string.
EntityStores ==
    {{},
     {Entity("d1", "ORG", <<"a", "b">>), Entity("d2", "PER", <<"x">>)},
     {Entity("d1", "ORG", <<"a", "b">>), Entity("d1", "ORG", <<"A", "B", "c">>),
      Entity("d2", "PER", <<"a", "b">>), Entity("d3", "ORG", <<"x">>)}}

\* The rows a relations table can hold beside the entities.
Edge(s, t, type, confidence) ==
    [source_document_id |-> s, target_document_id |-> t, relation_type |-> type,
     confidence |-> confidence, metadata |-> "llm", guarded |-> TRUE]

RelationStores ==
    SUBSET {Edge("d1", "d3", "AMENDS", 9), Edge("d3", "d2", "REFERENCES", 8),
            Edge("d2", "d1", "AMENDS", 5), Edge("d3", "d1", "PAYS_FOR", 6)}

\* What callers pass.
NameArgs == {<<"a", "b">>, <<"A", "B">>, <<"z">>, <<"a", "_">>}
TypeArgs == {None, "ORG", "PER"}
DocArgs == {"d1", "d2", "d3", "d9"}
TypesArgs == {<<>>, <<"AMENDS">>, <<"AMENDS", "PAYS_FOR">>}
LimitArgs == {1, graph_match_count}

\* The rows of a set in any order, cut to n (a query without ORDER BY, or
\* rows that tie in the order).
Listings(S, n) ==
    {s \in InjSeqs(S, Min(n, Cardinality(S))) : Len(s) = Min(n, Cardinality(S))}

\* The entity rows whose name matches, with the optional type filter
\* ("if entity_type:").
MatchingEntities(name, type) ==
    {e \in entities : ILike(name, e.entity_name) /\ (type = None \/ e.entity_type = type)}

\* entity_docs: the documents with a matching entity.
EntityDocs(name) ==
    {e.document_id : e \in MatchingEntities(name, None)} \cap DOMAIN GraphDocs

\* search_by_entity: SELECT DISTINCT document, entity_type, entity_name,
\* SUBSTRING(content, 1, 500) ... LIMIT match_count.
SearchByEntityRows(name, type, match_count) ==
    Listings({[document_id |-> e.document_id, entity_type |-> e.entity_type,
               entity_name |-> e.entity_name,
               content_snippet |-> Min(GraphDocs[e.document_id], snippet_limit)] :
                 e \in {m \in MatchingEntities(name, type) : m.document_id \in DOMAIN GraphDocs}},
             match_count)

\* The place of a row under an ORDER BY clause (the documents' titles sort
\* as their ids do).
SortKey(order, r) ==
    CASE order = "d.title" -> RankIn(RelDocs, r.document_id)
      [] order = "r.confidence DESC" -> 0 - r.confidence
      [] order = "entity_type" -> IF r.type = "ORG" THEN 1 ELSE 2

\* The rows of S in the order of the clause, cut to n (ORDER BY ... LIMIT n;
\* rows that tie come in any order).
OrderedListings(S, order, n) ==
    {Take(s, n) : s \in {l \in Listings(S, Cardinality(S)) :
                            \A i, j \in 1..Len(l) :
                               i < j => SortKey(order, l[i]) <= SortKey(order, l[j])}}

\* get_document_entities: the entities of a document, ORDER BY entity_type,
\* entity_name (the order of the names is left open).
DocumentEntityRows(document_id) ==
    OrderedListings({[type |-> e.entity_type, name |-> e.entity_name] :
                        e \in {m \in entities : m.document_id = document_id}},
                    "entity_type",
                    Cardinality(entities))

\* find_related_documents, step 1: SELECT DISTINCT document, entity_type,
\* entity_name ... ORDER BY d.title LIMIT 20.
RelatedEntityRows(name) ==
    OrderedListings({[document_id |-> e.document_id, entity_type |-> e.entity_type,
                      entity_name |-> e.entity_name] :
                        e \in {m \in MatchingEntities(name, None) : m.document_id \in DOMAIN GraphDocs}},
                    "d.title", related_limit)

\* r links document d to a document of the set ids.
Links(r, d, ids) ==
    \/ r.source_document_id = d /\ r.target_document_id \in ids
    \/ r.target_document_id = d /\ r.source_document_id \in ids

\* find_related_documents, step 2: the documents outside entity_docs that a
\* relation links to a document of entity_docs, SELECT DISTINCT document,
\* relation_type, confidence ... ORDER BY r.confidence DESC LIMIT 20.
RelatedRelationRows(name) ==
    LET ed == EntityDocs(name)
    IN OrderedListings(UNION {{[document_id |-> d, relation_type |-> r.relation_type,
                                confidence |-> r.confidence] :
                                  r \in {x \in relations : Links(x, d, ed)}} :
                              d \in DOMAIN GraphDocs \ ed},
                       "r.confidence DESC", related_limit)

Related(d, strength, kind) == [document_id |-> d, strength |-> strength, kind |-> kind]

\* "Avoid duplicates": a relation row is appended unless its document is
\* already listed.
RECURSIVE AppendUnlisted(_, _)
AppendUnlisted(related, rows) ==
    IF rows = <<>> THEN related
    ELSE AppendUnlisted(
            IF \E i \in 1..Len(related) : related[i].document_id = Head(rows).document_id
            THEN related
            ELSE Append(related, Related(Head(rows).document_id, Head(rows).confidence, "relation")),
            Tail(rows))

\* find_related_documents: "Combine results".
CombineRelated(entity_results, relation_results) ==
    AppendUnlisted([i \in 1..Len(entity_results) |->
                        Related(entity_results[i].document_id, 10, "entity")],
                   relation_results)

\* find_by_relation: the relations whose source is the document, joined to
\* their target, with the optional type filter ("if relation_types:"),
\* ORDER BY r.confidence DESC LIMIT 50.
OutgoingRows_BothDirections(document_id, relation_types) ==
    OrderedListings({[document_id |-> IF r.source_document_id = document_id
                                      THEN r.target_document_id ELSE r.source_document_id,
                      relation_type |-> r.relation_type,
                      confidence |-> r.confidence] :
                        r \in {x \in relations :
                                 /\ x.source_document_id = document_id
                                    \/ x.target_document_id = document_id
                                 /\ relation_types = <<>> \/ x.relation_type \in Range(relation_types)}},
                    "r.confidence DESC", relation_limit)

OutgoingRows(document_id, relation_types) ==
    OrderedListings({[document_id |-> r.target_document_id, relation_type |-> r.relation_type,
                      confidence |-> r.confidence] :
                        r \in {x \in relations :
                                 /\ x.source_document_id = document_id
                                 /\ x.target_document_id \in DOMAIN GraphDocs
                                 /\ relation_types = <<>> \/ x.relation_type \in Range(relation_types)}},
                    "r.confidence DESC", relation_limit)

\* search_relations_by_entity, step 1: SELECT DISTINCT d.id ... LIMIT 20.
EntityDocRows(name) == Listings({[id |-> d] : d \in EntityDocs(name)}, entity_docs_limit)

\* search_relations_by_entity, step 2: the relations with an endpoint among
\* doc_ids, ORDER BY r.confidence DESC LIMIT match_count.  The query has no
\* condition on relation_type.
RelationsOfDocs(doc_ids, relation_type, match_count) ==
    OrderedListings({[relation_type |-> r.relation_type, confidence |-> r.confidence,
                      source_title |-> r.source_document_id,
                      target_title |-> r.target_document_id, reasoning |-> r.metadata] :
                        r \in {x \in relations :
                                 /\ x.source_document_id \in DOMAIN GraphDocs
                                 /\ x.target_document_id \in DOMAIN GraphDocs
                                 /\ \/ [id |-> x.source_document_id] \in Range(doc_ids)
                                    \/ [id |-> x.target_document_id] \in Range(doc_ids)}},
                    "r.confidence DESC", match_count)

DepthArgs == {1, 2}

RelationTypeArgs == {None, "AMENDS"}

GraphIdle ==
    [pc |-> "idle", fn |-> None, name |-> <<>>, type |-> None, doc |-> None,
     types |-> <<>>, depth |-> 0, match_count |-> 0, first |-> <<>>,
     result |-> <<>>, failed |-> FALSE, raised |-> FALSE]

\* "except Exception as e: logger.exception(...); return []", the same in
\* every function of the module.
GraphOnFailure_Propagates(g) == [g EXCEPT !.pc = "done", !.failed = TRUE, !.raised = TRUE]

GraphOnFailure(g) == [g EXCEPT !.pc = "done", !.failed = TRUE, !.result = <<>>]

GraphCall(g) ==
    /\ graph.pc = "idle"
    /\ graph' = g
    /\ UNCHANGED <<entities, searchVars, relVars, ingestVars>>

\* One awaited database call of a graph function: it raises, and the
\* function's handler runs, or it answers and the function goes on to g.
GraphFetch(fn, pc, g) ==
    /\ graph.fn = fn /\ graph.pc = pc
    /\ graph' \in {GraphOnFailure(graph), g}
    /\ UNCHANGED <<entities, searchVars, relVars, ingestVars>>

CallSearchByEntity ==
    \E name \in NameArgs, type \in TypeArgs, match_count \in LimitArgs :
        GraphCall([GraphIdle EXCEPT !.pc = "fetch", !.fn = "search_by_entity", !.name = name,
                                    !.type = type, !.match_count = match_count])

SearchByEntityFetch ==
    \E rows \in SearchByEntityRows(graph.name, graph.type, graph.match_count) :
        GraphFetch("search_by_entity", "fetch", [graph EXCEPT !.pc = "done", !.result = rows])

CallGetDocumentEntities ==
    \E doc \in DocArgs :
        GraphCall([GraphIdle EXCEPT !.pc = "fetch", !.fn = "get_document_entities", !.doc = doc])

GetDocumentEntitiesFetch ==
    \E rows \in DocumentEntityRows(graph.doc) :
        GraphFetch("get_document_entities", "fetch", [graph EXCEPT !.pc = "done", !.result = rows])

CallFindRelatedDocuments ==
    \E name \in NameArgs, max_depth \in DepthArgs :
        GraphCall([GraphIdle EXCEPT !.pc = "entities", !.fn = "find_related_documents",
                                    !.name = name, !.depth = max_depth])

\* "if max_depth > 1" the relation query follows, otherwise
\* relation_results stays [] and the results are combined at once.
RelatedEntityFetch ==
    \E rows \in RelatedEntityRows(graph.name) :
        GraphFetch("find_related_documents", "entities",
                   IF graph.depth > 1
                   THEN [graph EXCEPT !.pc = "relations", !.first = rows]
                   ELSE [graph EXCEPT !.pc = "done", !.first = rows,
                                      !.result = CombineRelated(rows, <<>>)])

RelatedRelationFetch ==
    \E rows \in RelatedRelationRows(graph.name) :
        GraphFetch("find_related_documents", "relations",
                   [graph EXCEPT !.pc = "done", !.result = CombineRelated(graph.first, rows)])

CallFindByRelation ==
    \E doc \in DocArgs, relation_types \in TypesArgs :
        GraphCall([GraphIdle EXCEPT !.pc = "fetch", !.fn = "find_by_relation", !.doc = doc,
                                    !.types = relation_types])

FindByRelationFetch ==
    \E rows \in OutgoingRows(graph.doc, graph.types) :
        GraphFetch("find_by_relation", "fetch", [graph EXCEPT !.pc = "done", !.result = rows])

CallSearchRelationsByEntity ==
    \E name \in NameArgs, relation_type \in RelationTypeArgs, match_count \in LimitArgs :
        GraphCall([GraphIdle EXCEPT !.pc = "docs", !.fn = "search_relations_by_entity",
                                    !.name = name, !.type = relation_type,
                                    !.match_count = match_count])

\* "if not doc_rows: return []"
EntityDocFetch ==
    \E doc_rows \in EntityDocRows(graph.name) :
        GraphFetch("search_relations_by_entity", "docs",
                   IF doc_rows = <<>>
                   THEN [graph EXCEPT !.pc = "done", !.result = <<>>]
                   ELSE [graph EXCEPT !.pc = "relations", !.first = doc_rows])

EntityRelationFetch ==
    \E rows \in RelationsOfDocs(graph.first, graph.type, graph.match_count) :
        GraphFetch("search_relations_by_entity", "relations",
                   [graph EXCEPT !.pc = "done", !.result = rows])

GraphReturn ==
    /\ graph.pc = "done"
    /\ graph' = GraphIdle
    /\ UNCHANGED <<entities, searchVars, relVars, ingestVars>>

GraphNext ==
    \/ CallSearchByEntity \/ SearchByEntityFetch
    \/ CallGetDocumentEntities \/ GetDocumentEntitiesFetch
    \/ CallFindRelatedDocuments \/ RelatedEntityFetch \/ RelatedRelationFetch
    \/ CallFindByRelation \/ FindByRelationFetch
    \/ CallSearchRelationsByEntity \/ EntityDocFetch \/ EntityRelationFetch
    \/ GraphReturn

(***************************************************************************)
(* Initial states                                                          *)
(***************************************************************************)

RelInit ==
    /\ relations = {} /\ run = RunIdle /\ runs = [started |-> 0, crashed |-> FALSE]
    /\ call = CallIdle

IngestInit ==
    /\ documents = {} /\ chunkRows = {}
    /\ tasks = [t \in TaskIds |-> TaskIdle]
    /\ nextId = 1 /\ ingests = 0 /\ clock = 0
    /\ embed = EmbedIdle
    /\ pipeline = PipelineIdle
    /\ job = [j \in JobIds |-> JobIdle]

Init ==
    /\ chunks = SmallCorpus
    /\ search = SearchIdle
    /\ RelInit
    /\ IngestInit
    /\ entities = {} /\ graph = GraphIdle

SpecSearch == Init /\ [][SearchNext]_vars

SpecRel == Init /\ [][RelNext]_vars

SpecClassify == Init /\ [][ClassifyNext]_vars

\* One extract_relations_batch call.  The event loop resumes the coroutine
\* whenever it can run, and the HTTP client answers or times out
\* (timeout=30.0), so each step of the batch is taken once it is enabled.
BatchNext == StartRun \/ CallLLM \/ LLMResponse \/ EndBatch

SpecBatch ==
    /\ Init /\ [][BatchNext]_vars
    /\ WF_vars(CallLLM) /\ WF_vars(LLMResponse) /\ WF_vars(EndBatch)

SpecIngest == Init /\ [][IngestNext]_vars

SpecPipeline == Init /\ [][IngestDocuments \/ IngestFile \/ IngestDocumentsReturn]_vars

\* asyncio runs every created task, and each await of the task returns or
\* raises: a job that can take a step takes one.
SpecJob == Init /\ [][JobNext]_vars /\ \A j \in JobIds : WF_vars(JobNext /\ job'[j] # job[j])

SpecEmbed == Init /\ [][EmbedNext]_vars

\* SpecFusion: hybrid_search at its store call, for every pair of rankings of
\* the larger corpus and every result count.
FusionInit ==
    /\ chunks = FusionCorpus
    /\ \E argCount \in CountArgs :
         \E sem \in RankingsAlong(SimilarityOrder, MaxRank), lex \in Rankings(FusionCorpus, MaxRank) :
            search = [Enter("hybrid", sem, lex, argCount, None, None) EXCEPT !.pc = "fetch"]
    /\ RelInit
    /\ IngestInit
    /\ entities = {} /\ graph = GraphIdle

SpecFusion == FusionInit /\ [][HybridFetch]_vars

\* The graph queries read a store that ingestion and relation extraction
\* have filled before.
GraphInit ==
    /\ chunks = SmallCorpus
    /\ search = SearchIdle
    /\ relations \in RelationStores
    /\ run = RunIdle /\ runs = [started |-> 0, crashed |-> FALSE]
    /\ call = CallIdle
    /\ IngestInit
    /\ entities \in EntityStores
    /\ graph = GraphIdle

SpecGraph == GraphInit /\ [][GraphNext]_vars

(***************************************************************************)
(* Search: properties                                                      *)
(***************************************************************************)

\* What the caller asked for, read off the arguments alone.
RequestedCount ==
    IF search.argCount = <<>> THEN default_match_count
    ELSE Min(search.argCount[1], max_match_count)

ProjectInEffect ==
    IF search.argProject # None THEN search.argProject ELSE search.ctxProject

\* What text_search returns for the same query, result count and project.
LexicalAnswer ==
    Rows(chunks, Take(SelectSeq(search.lex,
                        LAMBDA c : ProjectInEffect = None \/ chunks[c] = ProjectInEffect),
                      RequestedCount))

HybridEmbeddingFailed ==
    /\ search.pc = "done" /\ search.mode = "hybrid"
    /\ Len(search.faults) >= 1 /\ search.faults[1] = "embedding"

\* C1: when the query-embedding call of hybrid_search fails, hybrid_search
\* returns the lexical results for the same query, result count and project.
C1_FallbackIsLexical ==
    HybridEmbeddingFailed => search.result = LexicalAnswer

\* C1, the case: the embedding call of a hybrid search failed although the
\* text index has matches for the query.
C1_Witness ==
    HybridEmbeddingFailed /\ LexicalAnswer # <<>>

\* The awaits that failed on the path that produced the returned value.
FailedOnFinalPath ==
    IF search.mode = "hybrid" THEN Len(search.faults) >= 2 ELSE Len(search.faults) >= 1

\* C2: no search function raises to its caller: whatever fails (embedding,
\* store, or both), the call goes on to return, and returns the empty list
\* when the path that was to produce the rows failed.
C2_NeverRaises ==
    /\ ~search.raised
    /\ search.pc \in {"embed", "fetch", "except"} => ENABLED SearchNext
    /\ (search.pc = "done" /\ FailedOnFinalPath) => search.result = <<>>

\* C2, the case: a hybrid search whose store call and whose fallback's
\* embedding call both failed has returned.
C2_Witness ==
    /\ search.pc = "done" /\ search.mode = "hybrid"
    /\ search.faults = <<"database", "embedding">>
    /\ search.result = <<>> /\ ~search.raised

HybridSucceeded ==
    search.pc = "done" /\ search.mode = "hybrid" /\ search.faults = <<>>

ResultIds == [i \in 1..Len(search.result) |-> search.result[i].chunk_id]

\* a/b >= c/d for the fractions of RrfScore.
ScoreGeq(c, d) ==
    LET a == RrfScore(search.sem, search.lex, c)
        b == RrfScore(search.sem, search.lex, d)
    IN a[1] * b[2] >= b[1] * a[2]

\* C6: the hybrid result is the first K of the union of the two ranked lists
\* in descending order of RRF score: no chunk from outside both lists, no
\* chunk twice, K rows (or the whole union), scores never increasing, nothing
\* left out that scores higher than a row kept; for semantic [A,B,C] and
\* lexical [C,D,E], C comes first.
C6_FusedRanking ==
    HybridSucceeded =>
        LET union == Range(search.sem) \cup Range(search.lex)
            ids == ResultIds
        IN /\ Range(ids) \subseteq union
           /\ \A i, j \in 1..Len(ids) : i # j => ids[i] # ids[j]
           /\ Len(ids) = Min(RequestedCount, Cardinality(union))
           /\ \A i, j \in 1..Len(ids) : i < j => ScoreGeq(ids[i], ids[j])
           /\ \A c \in union \ Range(ids) : \A i \in 1..Len(ids) : ScoreGeq(ids[i], c)
           /\ (search.sem = <<"A", "B", "C">> /\ search.lex = <<"C", "D", "E">>)
                => ids[1] = "C"

\* C6, the case: the fusion of semantic [A,B,C] and lexical [C,D,E].
C6_Witness ==
    /\ HybridSucceeded
    /\ search.sem = <<"A", "B", "C">> /\ search.lex = <<"C", "D", "E">>
    /\ Len(search.result) = 5 /\ search.result[1].chunk_id = "C"

InBoth(c) == c \in Range(search.sem) /\ c \in Range(search.lex)

\* C7 as stated: a chunk of both lists stands in the fused ranking at least
\* as high as in the semantic list and as in the lexical list.
C7_RanksAsHighAsInEitherList ==
    HybridSucceeded =>
        \A i \in 1..Len(search.result) :
            LET c == search.result[i].chunk_id
            IN InBoth(c) => i <= RankIn(search.sem, c) /\ i <= RankIn(search.lex, c)

\* d stands below c in every list that holds d.
Below(c, d) ==
    /\ d \in Range(search.sem) => RankIn(search.sem, c) < RankIn(search.sem, d)
    /\ d \in Range(search.lex) => RankIn(search.lex, c) < RankIn(search.lex, d)

\* C7 (amended): a chunk of both lists stands in the fused ranking ahead of
\* every chunk that stands below it in every list holding that chunk, and
\* is returned whenever such a chunk is.
C7_AheadOfChunksBelowIt ==
    HybridSucceeded =>
        \A j \in 1..Len(search.result) :
            \A c \in Range(search.sem) \cap Range(search.lex) :
                LET d == search.result[j].chunk_id
                IN (d # c /\ Below(c, d)) =>
                      \E i \in 1..(j - 1) : search.result[i].chunk_id = c

\* C7, the case: a chunk of both lists that is not first in the fusion and
\* is followed by a chunk standing below it.
C7_Witness ==
    /\ HybridSucceeded
    /\ \E i, j \in 1..Len(search.result) :
         /\ 1 < i /\ i < j
         /\ InBoth(search.result[i].chunk_id)
         /\ Below(search.result[i].chunk_id, search.result[j].chunk_id)
         /\ i > RankIn(search.sem, search.result[i].chunk_id)

\* C8: with a project in effect (passed, or taken from the context), every
\* row any search returns belongs to it, on the fallback path as well.
C8_ProjectScoped ==
    (search.pc = "done" /\ ProjectInEffect # None) =>
        \A i \in 1..Len(search.result) : search.result[i].project_id = ProjectInEffect

\* C8, the case: the project comes from the context, the query ranks a chunk
\* of another project first, and the hybrid fallback returned rows.
C8_Witness ==
    /\ search.pc = "done" /\ search.mode = "hybrid" /\ search.fallback
    /\ search.argProject = None /\ search.ctxProject = "P1"
    /\ Len(search.sem) >= 2 /\ search.sem[1] = "X"
    /\ search.result # <<>>

(***************************************************************************)
(* Relation extraction: properties                                         *)
(***************************************************************************)

DeclaresNone ==
    /\ call.pc = "returned"
    /\ call.resp[1].status = "ok"
    /\ call.resp[1].json = "object" /\ call.resp[1].type = "NONE"

\* C3: extract_relation returns None whenever the answer declares relation
\* type NONE, whatever the confidence, and never returns a record of type
\* NONE.
C3_NoneIsNoRelation ==
    /\ DeclaresNone => call.result = <<>>
    /\ (call.pc = "returned" /\ call.result # <<>>) => call.result[1].relation_type # "NONE"

\* C3, the case: the answer {"relation_type": "NONE", "confidence": 0.9}.
C3_Witness ==
    DeclaresNone /\ call.resp[1].conf = Confidence(9)

\* C9: every persisted relation row has one of the five real types and a
\* confidence at or above the threshold of the run that wrote it.
C9_PersistedRowsGuarded ==
    \A r \in relations : r.relation_type \in RealTypes /\ r.guarded

\* C9, the case: a second run with threshold 0.5 is saving; it has written a
\* row at exactly 0.5, and a row of confidence 0.3 written under threshold
\* 0.3 is still there.
C9_Witness ==
    /\ runs.started = 2 /\ run.pc = "save"
    /\ run.threshold = default_threshold /\ run.saved_count >= 1
    /\ \E r \in relations : r.confidence = default_threshold
    /\ \E r \in relations : r.confidence < default_threshold

KeysUnique ==
    \A r1, r2 \in relations : KeyOf(r1) = KeyOf(r2) => r1 = r2

\* A save step that wrote its row.
Wrote == run.pc = "save" /\ run'.saved_count = run.saved_count + 1

WroteAsUpsert ==
    LET rel == Head(run.high)
        key == <<rel.source_doc_id, rel.target_doc_id, rel.relation_type>>
        existed == \E r \in relations : KeyOf(r) = key
    IN /\ \E r \in relations' : /\ KeyOf(r) = key
                                /\ r.confidence = rel.confidence
                                /\ r.metadata = rel.reasoning
       /\ Cardinality(relations') = Cardinality(relations) + (IF existed THEN 0 ELSE 1)
       /\ \A r \in relations : KeyOf(r) # key => r \in relations'

\* C10: after any sequence of runs (re-runs, re-runs after a crash) the
\* relations table holds at most one row per (source, target, type), and
\* writing an existing key replaces its confidence and metadata and adds no
\* row.
C10_UpsertKeepsKeysUnique ==
    [](KeysUnique) /\ [][Wrote => WroteAsUpsert]_vars

\* C10, the case: after a crashed run, a later run has overwritten a row.
C10_Witness ==
    /\ runs.crashed /\ runs.started >= 2
    /\ run.pc = "save" /\ run.replaced >= 1
    /\ Cardinality(relations) >= 2

(***************************************************************************)
(* Ingestion: properties                                                   *)
(***************************************************************************)

\* A task of the pipeline or of the synchronous upload route that has ended
\* without a failure, ran with no other task in progress, and whose file
\* matched a stored document (source, content hash, project) when it started.
Reingested(t) ==
    /\ tasks[t].pc = "done"
    /\ tasks[t].route \in {"pipeline", "upload"}
    /\ tasks[t].result \in {"skipped", "processed"}
    /\ tasks[t].solo
    /\ tasks[t].matched # {}

CountedOnce(t) ==
    /\ Cardinality(documents) = tasks[t].ndocs
    /\ Cardinality(chunkRows) = tasks[t].nchunks
    /\ \E d \in tasks[t].matched : \E e \in documents :
          /\ e.id = d.id
          /\ e.ingestion_count = d.ingestion_count + 1
          /\ e.last_ingested > d.last_ingested

\* C4: ingesting a file that matches a stored Document (source, content
\* hash, project) creates no Document or Chunk row, increments that
\* Document's ingestion_count by exactly 1 and advances last_ingested, for
\* every file the pipeline discovers (sub-folders included) and for the
\* synchronous upload route.
C4_ReingestCountsOnce ==
    \A t \in TaskIds : Reingested(t) => CountedOnce(t)

\* C4, the case: the file of a sub-folder is ingested a second time, alone.
C4_Witness ==
    \E t \in TaskIds : Reingested(t) /\ tasks[t].file.dir = "sub" /\ ~CountedOnce(t)

\* C4, where the code keeps the promise: a file of the documents folder
\* itself, or an upload.
C4_RootWitness ==
    \E t \in TaskIds : Reingested(t) /\ tasks[t].file.dir = "" /\ tasks[t].result = "skipped"

SameKey(d1, d2) ==
    /\ d1.source = d2.source
    /\ d1.file_hash # None /\ d1.file_hash = d2.file_hash
    /\ d1.project_id = d2.project_id

\* C5: in every reachable state, also when two tasks for the same file
\* interleave between the existence check and the insert, at most one
\* Document row exists per (source, content hash, project).
C5_OneRowPerKey ==
    \A d1, d2 \in documents : SameKey(d1, d2) => d1.id = d2.id

\* C5, the case: two rows for the same uploaded file, which only two tasks
\* that both passed the check before either inserted can leave.
C5_Witness ==
    \E d1, d2 \in documents :
        SameKey(d1, d2) /\ d1.id # d2.id /\ d1.source = <<"a.pdf">> /\ d1.project_id = "P1"

(***************************************************************************)
(* Properties of the classifier's confidence and fallback, and of the      *)
(* result count                                                            *)
(***************************************************************************)

InUnitInterval(confidence) == 0 <= confidence /\ confidence <= 10

\* C11: every relation record the classifier returns, and every relation row
\* persisted from it, has a confidence within [0,1] (0..10 tenths), whatever
\* number the LLM answer holds.
C11_ConfidenceInUnitInterval ==
    /\ (call.pc = "returned" /\ call.result # <<>>) => InUnitInterval(call.result[1].confidence)
    /\ \A r \in relations : InUnitInterval(r.confidence)

\* C11, the case: the answer {"relation_type": "AMENDS", "confidence": 1.5}.
C11_Witness ==
    /\ call.pc = "returned" /\ call.resp[1].status = "ok"
    /\ call.resp[1].json = "object" /\ call.resp[1].type = "AMENDS"
    /\ call.resp[1].conf = Confidence(15)
    /\ call.result # <<>>

\* C19: whatever result count the caller passes or omits, no search call asks
\* the store for more than max_match_count rows or returns more than that, on
\* the fallback path of hybrid_search as well.
C19_CountClamped ==
    /\ search.pc \in {"embed", "fetch", "except", "done"} => search.match_count <= max_match_count
    /\ search.pc = "done" =>
          /\ Len(search.result) <= search.match_count
          /\ Len(search.result) <= max_match_count

\* C19, the case: the caller asked for more than the maximum and the hybrid
\* fallback answered.
C19_Witness ==
    /\ search.pc = "done" /\ search.mode = "hybrid" /\ search.fallback
    /\ search.argCount = <<max_match_count + 1>>
    /\ search.match_count = max_match_count
    /\ search.result # <<>>

\* JSON extraction failed: no object in the text, text that is not valid
\* JSON, or an object whose relation_type is not a known type.
ExtractionFailed ==
    /\ call.pc = "returned" /\ call.resp[1].status = "ok"
    /\ \/ call.resp[1].json \in {"absent", "invalid"}
       \/ call.resp[1].json = "object" /\ call.resp[1].type \notin Range(RELATION_TYPES)

\* C20: whenever JSON extraction fails, _parse_relation scans the raw text
\* for a relation-type keyword and returns that type with confidence 0.6;
\* only without a keyword does it return no relation.
C20_KeywordFallback ==
    ExtractionFailed =>
        IF call.resp[1].keywords = {}
        THEN call.result = <<>>
        ELSE /\ call.result # <<>>
             /\ call.result[1].relation_type \in call.resp[1].keywords
             /\ call.result[1].confidence = FallbackConfidence

\* C20, the case: the braces in the text are not valid JSON, and the text
\* names a relation type.
C20_Witness ==
    ExtractionFailed /\ call.resp[1].json = "invalid" /\ call.resp[1].keywords = {"AMENDS"}

(***************************************************************************)
(* Embedding: properties                                                   *)
(***************************************************************************)

EmbedSucceeded == embed.pc = "done" /\ ~embed.raised

\* C12: embed_chunks returns exactly one embedded chunk per input chunk, in
\* input order, each carrying the vector of its own text, for every input
\* size (several batches included), whether or not texts were cut and however
\* many vectors a successful answer of the endpoint holds.
C12_OneVectorPerChunk ==
    EmbedSucceeded =>
        /\ Len(embed.out) = Len(embed.chunks)
        /\ \A j \in 1..Len(embed.out) :
              /\ embed.out[j].index = embed.chunks[j].index
              /\ embed.out[j].embedding = embed.chunks[j].index

\* C12, the case: three chunks in two batches, one of them cut, and the
\* endpoint answered one batch with fewer vectors than texts.
C12_Witness ==
    /\ EmbedSucceeded
    /\ Len(embed.chunks) = MaxChunks /\ embed.calls >= 2
    /\ \E j \in 1..Len(embed.chunks) : embed.chunks[j].long
    /\ Len(embed.out) < Len(embed.chunks)

\* C13: when the embedding call fails for a batch of a document's chunks,
\* that document's ingestion ends with an error and no Document, Chunk or
\* Entity row is written for it.
C13_EmbeddingFailureWritesNothing ==
    \A t \in TaskIds :
        (tasks[t].failed_at = "embed") =>
            /\ tasks[t].pc = "done" /\ tasks[t].result = "error"
            /\ tasks[t].document_id = 0
            /\ tasks[t].chunks_created = 0
            /\ tasks[t].entities = 0
            /\ tasks[t].solo => /\ Cardinality(documents) = tasks[t].ndocs
                                /\ Cardinality(chunkRows) = tasks[t].nchunks

\* C13, the case: the embedding call of a task failed while another document
\* was already stored.
C13_Witness ==
    \E t \in TaskIds :
        /\ tasks[t].failed_at = "embed" /\ tasks[t].pc = "done"
        /\ tasks[t].solo /\ tasks[t].ndocs = 1 /\ Cardinality(documents) = 1

(***************************************************************************)
(* Graph queries: properties                                               *)
(***************************************************************************)
GraphAnswered(fn) == graph.pc = "done" /\ graph.fn = fn /\ ~graph.failed

\* name contains q, letter case aside: q is taken literally.
ContainsIgnoringCase(q, name) ==
    \E off \in 0..(Len(name) - Len(q)) :
        \A i \in 1..Len(q) : Lower(q[i]) = Lower(name[off + i])

\* The argument matches nothing: no document has the id, no entity name
\* matches the name as the database matches it.
NoMatch ==
    CASE graph.fn \in {"get_document_entities", "find_by_relation"} ->
            graph.doc \notin DOMAIN GraphDocs
      [] OTHER -> \A e \in entities : ~ILike(graph.name, e.entity_name)

C15_NoMatchWitness ==
    /\ graph.pc = "done" /\ ~graph.failed /\ NoMatch /\ entities # {} /\ relations # {}
    /\ graph.fn = "search_relations_by_entity"

\* C16: search_by_entity returns only documents that have an entity whose
\* name contains the query string case-insensitively and, when a type filter
\* is given, whose type equals the filter; each result carries that entity's
\* type and name and a snippet of at most 500 characters, and at most
\* match_count results are returned.
C16_EntitySearchMatches ==
    GraphAnswered("search_by_entity") =>
        /\ Len(graph.result) <= graph.match_count
        /\ \A i \in 1..Len(graph.result) :
              /\ graph.result[i].content_snippet <= snippet_limit
              /\ \E e \in entities :
                    /\ e.document_id = graph.result[i].document_id
                    /\ e.entity_type = graph.result[i].entity_type
                    /\ e.entity_name = graph.result[i].entity_name
                    /\ ContainsIgnoringCase(graph.name, e.entity_name)
                    /\ graph.type # None => e.entity_type = graph.type

C16_Witness ==
    /\ GraphAnswered("search_by_entity") /\ graph.type = "ORG" /\ graph.name = <<"A", "B">>
    /\ Len(graph.result) = 2
    /\ \E i \in 1..2 : graph.result[i].content_snippet = snippet_limit
    /\ \E e \in entities : e.entity_type = "PER" /\ ContainsIgnoringCase(graph.name, e.entity_name)

C16_WildcardWitness ==
    /\ GraphAnswered("search_by_entity") /\ graph.name = <<"a", "_">>
    /\ graph.result # <<>>

\* Document d has an entity whose name contains the name, letter case aside.
Mentions(d, name) ==
    \E e \in entities : e.document_id = d /\ ContainsIgnoringCase(name, e.entity_name)

\* C14: find_related_documents(name, max_depth >= 2) returns each document
\* id at most once: a document that mentions the entity appears with
\* strength 1.0, a document that does not mention it but is linked by a
\* persisted relation to one that does appears with that relation's
\* confidence, and a directly matching document is never listed as an
\* indirect one and never listed twice.
C14_RelatedListedOnce ==
    (GraphAnswered("find_related_documents") /\ graph.depth >= 2) =>
        /\ \A i, j \in 1..Len(graph.result) :
              i # j => graph.result[i].document_id # graph.result[j].document_id
        /\ \A d \in DOMAIN GraphDocs :
              Mentions(d, graph.name) =>
                 /\ \E i \in 1..Len(graph.result) :
                       graph.result[i] = Related(d, 10, "entity")
                 /\ \A i \in 1..Len(graph.result) :
                       graph.result[i].document_id = d => graph.result[i].kind = "entity"
        /\ \A i \in 1..Len(graph.result) :
              ~Mentions(graph.result[i].document_id, graph.name) =>
                 \E r \in relations :
                    /\ graph.result[i].strength = r.confidence
                    /\ Links(r, graph.result[i].document_id,
                             {d \in DOMAIN GraphDocs : Mentions(d, graph.name)})

\* The literal name "ab" matches two entities of d1, and d1 is listed twice;
\* d3, linked to d1, is listed once with the confidence of a relation.
C14_Witness ==
    /\ GraphAnswered("find_related_documents") /\ graph.depth = 2
    /\ graph.name = <<"a", "b">>
    /\ \E i, j \in 1..Len(graph.result) :
          /\ i # j
          /\ graph.result[i].document_id = "d1" /\ graph.result[j].document_id = "d1"
    /\ \E i \in 1..Len(graph.result) : graph.result[i].kind = "relation"

\* C17: find_by_relation(document_id, relation_types) returns only persisted
\* relations whose source is the given document, restricted to the given
\* types when a filter is supplied, in non-increasing order of confidence.
C17_OutgoingByConfidence ==
    GraphAnswered("find_by_relation") =>
        /\ \A i \in 1..Len(graph.result) :
              \E r \in relations :
                 /\ r.source_document_id = graph.doc
                 /\ r.target_document_id = graph.result[i].document_id
                 /\ r.relation_type = graph.result[i].relation_type
                 /\ r.confidence = graph.result[i].confidence
                 /\ graph.types # <<>> => r.relation_type \in Range(graph.types)
        /\ \A i, j \in 1..Len(graph.result) :
              i < j => graph.result[i].confidence >= graph.result[j].confidence

\* d3 is the target of a relation and the source of two others of different
\* confidence; both outgoing ones are listed, the stronger first.
C17_Witness ==
    /\ GraphAnswered("find_by_relation") /\ graph.doc = "d3" /\ graph.types = <<>>
    /\ \E r \in relations : r.target_document_id = "d3"
    /\ Len(graph.result) = 2
    /\ graph.result[1].confidence > graph.result[2].confidence

C17_FilterWitness ==
    /\ GraphAnswered("find_by_relation") /\ graph.doc = "d3"
    /\ graph.types = <<"AMENDS", "PAYS_FOR">>
    /\ Cardinality({r \in relations : r.source_document_id = "d3"}) = 2
    /\ Len(graph.result) = 1

\* C18: search_relations_by_entity(name, relation_type, k) returns only
\* relations in which at least one endpoint is a document mentioning the
\* entity and, when relation_type is supplied, only relations of that type.
C18_RelationsOfEntityAndType ==
    GraphAnswered("search_relations_by_entity") =>
        \A i \in 1..Len(graph.result) :
           /\ \/ Mentions(graph.result[i].source_title, graph.name)
              \/ Mentions(graph.result[i].target_title, graph.name)
           /\ graph.type # None => graph.result[i].relation_type = graph.type

\* relation_type = "AMENDS" is supplied and a relation of another type is
\* returned.
C18_Witness ==
    /\ GraphAnswered("search_relations_by_entity") /\ graph.name = <<"a", "b">>
    /\ graph.type = "AMENDS"
    /\ \E i \in 1..Len(graph.result) : graph.result[i].relation_type # "AMENDS"

(***************************************************************************)
(* Batch relation extraction: properties                                   *)
(***************************************************************************)
InBatch == run.pc \in {"batch", "await"}

PairsOnce ==
    /\ \A i \in 1..Len(run.called) : run.called[i][1] # run.called[i][2]
    /\ \A i, j \in 1..Len(run.called) :
          i # j => /\ run.called[i] # run.called[j]
                   /\ run.called[i] # <<run.called[j][2], run.called[j][1]>>

\* C21: extract_relations_batch issues at most max_pairs LLM calls per
\* batch and evaluates each unordered pair of distinct documents at most
\* once; the loop terminates.
C21_PairBudget ==
    /\ [](InBatch => (Len(run.called) <= run.max_pairs /\ PairsOnce))
    /\ (InBatch ~> run.pc = "save")

\* The budget of one pair is used up while evaluable pairs remain.
C21_Witness ==
    /\ run.pc = "batch" /\ run.max_pairs = 1 /\ Len(run.called) = 1
    /\ NextEvaluable(run.pairs, run.ents, run.p) # 0

C21_AllPairsWitness ==
    /\ run.pc = "batch" /\ run.max_pairs = default_max_pairs
    /\ Len(run.called) = Len(run.pairs) /\ Len(run.pairs) = 3

\* C22: extract_relations_batch never issues an LLM call for, and never
\* returns a relation for, a pair in which either document has an empty
\* entity list.
C22_NoCallWithoutEntities ==
    InBatch =>
        /\ \A i \in 1..Len(run.called) :
              run.ents[run.called[i][1]] # <<>> /\ run.ents[run.called[i][2]] # <<>>
        /\ \A i \in 1..Len(run.found) :
              /\ run.ents[run.found[i].source_doc_id] # <<>>
              /\ run.ents[run.found[i].target_doc_id] # <<>>

\* d3 has no entities: the batch is over after the one pair without d3.
C22_Witness ==
    /\ run.pc = "batch" /\ run.ents["d3"] = <<>> /\ run.max_pairs = default_max_pairs
    /\ run.called = <<<<"d1", "d2">>>> /\ Len(run.found) = 1
    /\ ~BatchGoesOn

\* C23: a pair whose classification fails leaves no relation, and the batch
\* goes on to the remaining pairs; the batch does not raise.
C23_FailedPairSkipped ==
    [][(run.pc = "await" /\ run'.last = "failed") =>
          /\ run'.pc = "batch"
          /\ run'.found = run.found
          /\ run'.p = run.p + 1
          /\ run'.pairs_analyzed = run.pairs_analyzed + 1]_vars

\* The first pair failed, and a later pair gave a relation.
C23_Witness ==
    /\ run.pc = "batch" /\ run.last = "failed" /\ Len(run.called) = 3
    /\ Len(run.found) = 1 /\ run.found[1].source_doc_id = "d1"
    /\ run.found[1].target_doc_id = "d3"

\* C24: during a batch at most one LLM call is in flight: the call for a
\* pair starts only after the call for the previous pair has ended.
C24_OneCallInFlight ==
    /\ run.in_flight <= 1
    /\ run.in_flight = 1 <=> run.pc = "await"
    /\ run.in_flight + run.pairs_analyzed = Len(run.called) \/ ~InBatch

C24_Witness ==
    /\ run.pc = "await" /\ run.in_flight = 1 /\ run.pairs_analyzed = 1

(***************************************************************************)
(* Ingestion: saving a document                                            *)
(***************************************************************************)
ChunksOf(d) == {c \in chunkRows : c.document_id = d.id}

\* C30: saving a document is all-or-nothing: in every reachable state a
\* persisted document row has all chunks of that ingestion persisted with
\* it; an error while inserting a chunk leaves neither the row nor a partial
\* set of its chunks.
C30_DocumentWithAllChunks ==
    \A d \in documents :
        \E f \in Files : Relpath(f) = d.source /\ Cardinality(ChunksOf(d)) = f.chunks

\* The second INSERT INTO chunks raised and the task has returned its error:
\* the document row stays, with one chunk of two.
C30_Witness ==
    \E t \in TaskIds, d \in documents :
        /\ tasks[t].pc = "done" /\ tasks[t].result = "error"
        /\ tasks[t].failed_at = "insert_chunks"
        /\ d.id = tasks[t].document_id
        /\ Cardinality(ChunksOf(d)) = 1
        /\ \A u \in TaskIds \ {t} : ~Active(u)

\* C25: an error raised while extracting or saving the entities of one chunk
\* does not prevent the entities of the document's other chunks, later ones
\* included, from being persisted, and does not fail the ingestion.
C25_OtherChunksKeepEntities ==
    \A t \in TaskIds :
        (tasks[t].pc = "done" /\ tasks[t].entity_error # 0) =>
            /\ tasks[t].result = "processed"
            /\ tasks[t].entities = tasks[t].file.chunks - 1

\* The first of two chunks raised: the document is processed with no entity
\* of the second chunk.
C25_Witness ==
    \E t \in TaskIds :
        /\ tasks[t].pc = "done" /\ tasks[t].result = "processed"
        /\ tasks[t].entity_error = 1 /\ tasks[t].file.chunks = 2
        /\ tasks[t].entities = 0

(***************************************************************************)
(* Ingesting a folder: properties                                          *)
(***************************************************************************)
\* C26: ingest_documents returns exactly one IngestionResult per discovered
\* file, in file order; an exception while ingesting a file yields a result
\* carrying the error and does not prevent the ingestion of the others.
C26_OneResultPerFile ==
    pipeline.pc = "done" =>
        /\ Len(pipeline.results) = pipeline.n
        /\ \A i \in 1..Len(pipeline.results) : pipeline.results[i].file = i

\* progress_callback raised after the second file's result was appended: the
\* file has two results, and the third file was still ingested.
C26_Witness ==
    /\ pipeline.pc = "done" /\ pipeline.n = 3
    /\ Len(pipeline.results) = 4
    /\ pipeline.results[2].file = 2 /\ pipeline.results[3].file = 2
    /\ pipeline.results[4] = [file |-> 3, error |-> FALSE]

\* Without a progress_callback: a file that raised has one result carrying
\* the error, and the files after it are ingested.
C26_NoCallbackWitness ==
    /\ pipeline.pc = "done" /\ ~pipeline.callback /\ pipeline.n = 3
    /\ Len(pipeline.results) = 3
    /\ pipeline.results[1].error /\ ~pipeline.results[3].error

(***************************************************************************)
(* Background upload jobs: properties                                      *)
(***************************************************************************)
\* C27: every pool or connection an operation acquired is released when the
\* operation ends, whether it completes or fails.
C27_NothingLeftOpen ==
    \A j \in JobIds :
        job[j].pc = "exited" => job[j].pool # "open" /\ job[j].pipeline_pool # "open"

\* _ingest_single_document raised: the job is marked failed, its own pool is
\* closed, and the pipeline's pool is still open when the task is over.
C27_Witness ==
    \E j \in JobIds :
        /\ job[j].pc = "exited" /\ job[j].failed_at = "ingest"
        /\ job[j].status = "failed" /\ job[j].pool = "closed"
        /\ job[j].pipeline_pool = "open"

\* C28: every background upload job created in status pending eventually
\* reaches a terminal status (completed or failed), on every path of
\* process_file_background.
C28_JobReachesTerminalStatus ==
    \A j \in JobIds :
        (job[j].status = "pending") ~> (job[j].status \in {"completed", "failed"})

\* The pool could not be created: the task is over and the job is pending.
C28_Witness ==
    \E j \in JobIds :
        /\ job[j].pc = "exited" /\ job[j].failed_at = "create_pool"
        /\ job[j].status = "pending"

\* C29: a job's status only moves pending -> processing -> completed or
\* failed (a pending job may fail at once), and the terminal statuses are
\* absorbing: a completed job is never rewritten to failed.
C29_TerminalStatusAbsorbing ==
    [][\A j \in JobIds :
          \/ job'[j].status = job[j].status
          \/ job[j].status = "none" /\ job'[j].status = "pending"
          \/ job[j].status = "pending" /\ job'[j].status \in {"processing", "failed"}
          \/ job[j].status = "processing" /\ job'[j].status \in {"completed", "failed"}]_vars

\* The job was marked completed, os.remove raised, and the except block has
\* rewritten the status to failed.
C29_Witness ==
    \E j \in JobIds :
        /\ job[j].pc = "exited" /\ job[j].failed_at = "remove"
        /\ job[j].result = "processed" /\ job[j].status = "failed"

====
